---- MODULE Spec2Model ----
(***************************************************************************)
(* A model of pamseam-rs: the pixel-pair distance, the base energy map,    *)
(* the two seam finders (AviShaOne's dynamic program over an energy grid,  *)
(* AviShaTwo's forward-energy cost map built row by row), the seam         *)
(* removers and the carve loop.                                            *)
(*                                                                         *)
(* Images and maps are flat row-major sequences, index y * width + x, as   *)
(* in image::ImageBuffer and TwoDimensionalMap::get_index.  Coordinates    *)
(* are 0-based as in the source; sequences are 1-based, hence the "+ 1".   *)
(*                                                                         *)
(* u32 arithmetic: the build decides what an overflow does.  With          *)
(* overflow checks (the dev/test profile) it panics, without them (the     *)
(* release profile) it wraps modulo 2^32.  The value operators below give  *)
(* the wrapped value, their *_overflows / *_panics companions say whether  *)
(* the call panics, and the variable overflow_checks is the profile.       *)
(***************************************************************************)
EXTENDS Integers, Sequences, FiniteSets, TLC

VARIABLES
    overflow_checks,  \* the build profile: TRUE = overflow panics, FALSE = wraps
    image,            \* the input: an image, or an energy grid (same layout)
    arg_seam,         \* the seam handed to a seam remover
    pixels,           \* <<p1, p2>>, the pixels handed to energy_of_pair_luma
    num_cpus,         \* what num_cpus::get() returns to a finder call
    builder,          \* calculate_cost step by step: its locals and its workers
    op,               \* the operation that was called, "none" before the call
    ret,              \* what the call returned: [panic |-> .., val |-> ..]
    newwidth,         \* carve: the target width
    newheight,        \* carve: the target height
    scratch,          \* carve: the working image
    width,            \* carve: the local `width`
    height,           \* carve: the local `height`
    direction,        \* carve: the local `direction`
    pc,               \* carve: where the call is
    trail             \* carve: the axis of every carveonce call made so far

vars == <<overflow_checks, image, arg_seam, pixels, num_cpus, builder, op, ret, newwidth,
          newheight, scratch, width, height, direction, pc, trail>>

(***************************************************************************)
(* Bounds of the model.                                                    *)
(***************************************************************************)
\* the largest number of pixels of an enumerated input image
MaxCells == 9
\* the largest value num_cpus::get() takes
MaxThreads == 3
\* the largest number of pixels of an image handed to carve, unless it is square
MaxCarveCells == 6
\* the largest number of pixels of an image whose cost map is built step by step
MaxRowCells == 6

\* the luma samples the enumerated images are made of
Lumas == {0, 2}

\* the largest sample of a Luma<u8> pixel
MaxLuma == 255

\* IMAGE_DATA = ENERGY_DATA of the tests of avisha1.rs, 5 wide and 4 high
Fixture ==
    [width |-> 5, height |-> 4,
     data |-> <<9, 9, 0, 9, 9,  9, 1, 9, 8, 9,  9, 9, 9, 9, 0,  9, 9, 9, 0, 9>>]

\* every luma sample of the inputs
Samples == Lumas \cup {Fixture.data[k] : k \in DOMAIN Fixture.data} \cup {MaxLuma}

(***************************************************************************)
(* u32 values that may wrap are kept as four base-256 digits, least        *)
(* significant first, so that wrapping is computed and not assumed.        *)
(***************************************************************************)
to_u32(n) == <<n % 256, (n \div 256) % 256, (n \div 65536) % 256, (n \div 16777216) % 256>>

from_u32(d) == d[1] + 256 * d[2] + 65536 * d[3] + 16777216 * d[4]

\* a - b modulo 2^32, digit by digit with a borrow
wrapping_sub(a, b) ==
    LET w1 == IF a[1] < b[1] THEN 1 ELSE 0
        w2 == IF a[2] < b[2] + w1 THEN 1 ELSE 0
        w3 == IF a[3] < b[3] + w2 THEN 1 ELSE 0
    IN  << (a[1] - b[1]) % 256,
           (a[2] - b[2] - w1) % 256,
           (a[3] - b[3] - w2) % 256,
           (a[4] - b[4] - w3) % 256 >>

\* a * b modulo 2^32: the four low digits of the schoolbook product
wrapping_mul(a, b) ==
    LET c1 == a[1] * b[1]
        c2 == a[1] * b[2] + a[2] * b[1] + (c1 \div 256)
        c3 == a[1] * b[3] + a[2] * b[2] + a[3] * b[1] + (c2 \div 256)
        c4 == a[1] * b[4] + a[2] * b[3] + a[3] * b[2] + a[4] * b[1] + (c3 \div 256)
    IN  << c1 % 256, c2 % 256, c3 % 256, c4 % 256 >>

\* a - b borrows out of the fourth digit: a < b
sub_overflows(a, b) ==
    LET w1 == IF a[1] < b[1] THEN 1 ELSE 0
        w2 == IF a[2] < b[2] + w1 THEN 1 ELSE 0
        w3 == IF a[3] < b[3] + w2 THEN 1 ELSE 0
    IN  a[4] < b[4] + w3

\* the digits of a * b above the fourth are not all zero
mul_overflows(a, b) ==
    LET c1 == a[1] * b[1]
        c2 == a[1] * b[2] + a[2] * b[1] + (c1 \div 256)
        c3 == a[1] * b[3] + a[2] * b[2] + a[3] * b[1] + (c2 \div 256)
        c4 == a[1] * b[4] + a[2] * b[3] + a[3] * b[2] + a[4] * b[1] + (c3 \div 256)
        c5 == a[2] * b[4] + a[3] * b[3] + a[4] * b[2] + (c4 \div 256)
        c6 == a[3] * b[4] + a[4] * b[3] + (c5 \div 256)
        c7 == a[4] * b[4] + (c6 \div 256)
    IN  c5 % 256 # 0 \/ c6 % 256 # 0 \/ c7 # 0

(***************************************************************************)
(* pixelpairs.rs                                                           *)
(***************************************************************************)
\* lumachannel: the luma sample as a u32 (a Luma pixel is its own luma)
lumachannel(p) == to_u32(p)

\* css * css, wrapped, and whether the subtraction before it (a0 - b0) or
\* the product overflows
square(css, a0, b0) ==
    [energy |-> from_u32(wrapping_mul(css, css)),
     overflows |-> sub_overflows(a0, b0) \/ mul_overflows(css, css)]

\* let css = lumachannel(p1) - lumachannel(p2)
difference(a0, b0) == square(wrapping_sub(a0, b0), a0, b0)

\* the body of energy_of_pair_luma on every pair of samples:
\* let css = lumachannel(p1) - lumachannel(p2); css * css
luma_pair ==
    [p1 \in Samples, p2 \in Samples |-> difference(lumachannel(p1), lumachannel(p2))]

energy_of_pair_luma(p1, p2) == luma_pair[p1, p2].energy

\* the u32 subtraction or the u32 product of energy_of_pair_luma overflows
energy_of_pair_luma_overflows(p1, p2) == luma_pair[p1, p2].overflows

(***************************************************************************)
(* Images and maps                                                         *)
(***************************************************************************)
\* TwoDimensionalMap::get_index, ImageBuffer's pixel index
get_index(m, x, y) == y * m.width + x + 1

in_bounds(m, x, y) == x >= 0 /\ x < m.width /\ y >= 0 /\ y < m.height

get_pixel(img, x, y) == img.data[get_index(img, x, y)]

\* ImageBuffer::new / TwoDimensionalMap::new: every cell the default value
new_map(w, h, default) == [width |-> w, height |-> h, data |-> [k \in 1..(w * h) |-> default]]

\* EnergyAndBackPointer
Cell(e, p) == [energy |-> e, parent |-> p]

DefaultCell == Cell(0, 0)

\* what a call came to: the value it returned, or a panic
Returned(v) == [panic |-> FALSE, val |-> v]

Panicked == [panic |-> TRUE, val |-> <<>>]

\* Iterator::max_by_key over lo..=hi: the last of the maximal elements
max_by_key(lo, hi, key) ==
    CHOOSE i \in lo..hi :
        \A j \in lo..hi : key[i] >= key[j] /\ (j > i => key[j] < key[i])

\* Iterator::min_by_key over lo..=hi: the first of the minimal elements
\* (key[i] is the key of element i)
min_by_key(lo, hi, key) ==
    CHOOSE i \in lo..hi :
        \A j \in lo..hi : key[i] <= key[j] /\ (j < i => key[j] > key[i])

RECURSIVE reverse(_)
reverse(s) == IF s = <<>> THEN <<>> ELSE Append(reverse(Tail(s)), Head(s))

(***************************************************************************)
(* avisha1.rs: the base energy map                                         *)
(***************************************************************************)
\* energy_at with a missing neighbour taken as black (0), not as the pixel itself
energy_at_black_border(img, x, y) ==
    LET mw == img.width - 1
        mh == img.height - 1
        leftpixel  == IF x = 0   THEN 0 ELSE get_pixel(img, x - 1, y)
        rightpixel == IF x >= mw THEN 0 ELSE get_pixel(img, x + 1, y)
        uppixel    == IF y = 0   THEN 0 ELSE get_pixel(img, x, y - 1)
        downpixel  == IF y >= mh THEN 0 ELSE get_pixel(img, x, y + 1)
    IN  energy_of_pair_luma(leftpixel, rightpixel) + energy_of_pair_luma(uppixel, downpixel)

\* the value calculate_energy stores at (x, y)
energy_at(img, x, y) ==
    LET mw == img.width - 1
        mh == img.height - 1
        current_pixel == get_pixel(img, x, y)
        leftpixel  == IF x = 0   THEN current_pixel ELSE get_pixel(img, x - 1, y)
        rightpixel == IF x >= mw THEN current_pixel ELSE get_pixel(img, x + 1, y)
        uppixel    == IF y = 0   THEN current_pixel ELSE get_pixel(img, x, y - 1)
        downpixel  == IF y >= mh THEN current_pixel ELSE get_pixel(img, x, y + 1)
    IN  energy_of_pair_luma(leftpixel, rightpixel) + energy_of_pair_luma(uppixel, downpixel)

\* one of the two distances taken at (x, y) overflows
energy_at_overflows(img, x, y) ==
    LET mw == img.width - 1
        mh == img.height - 1
        current_pixel == get_pixel(img, x, y)
        leftpixel  == IF x = 0   THEN current_pixel ELSE get_pixel(img, x - 1, y)
        rightpixel == IF x >= mw THEN current_pixel ELSE get_pixel(img, x + 1, y)
        uppixel    == IF y = 0   THEN current_pixel ELSE get_pixel(img, x, y - 1)
        downpixel  == IF y >= mh THEN current_pixel ELSE get_pixel(img, x, y + 1)
    IN  \/ energy_of_pair_luma_overflows(leftpixel, rightpixel)
        \/ energy_of_pair_luma_overflows(uppixel, downpixel)

\* calculate_energy: for y in 0..height, for x in 0..width, emap[(x, y)] = ...
calculate_energy(img) ==
    [width |-> img.width, height |-> img.height,
     data |-> [k \in 1..(img.width * img.height) |->
                 energy_at(img, (k - 1) % img.width, (k - 1) \div img.width)]]

\* calculate_energy panics: `width - 1` or `height - 1` underflows, or a
\* distance overflows, in a build with overflow checks
calculate_energy_panics(img, checks) ==
    checks /\ \/ img.width = 0
              \/ img.height = 0
              \/ \E x \in 0..(img.width - 1), y \in 0..(img.height - 1) :
                    energy_at_overflows(img, x, y)

(***************************************************************************)
(* avisha1.rs: the seam of an energy grid                                  *)
(***************************************************************************)
\* vertical_parent that tries the cell straight up first, then up-left, then
\* up-right
vertical_parent_up_first(target, x, y) ==
    LET maxwidth == target.width - 1
        up == target.data[get_index(target, x, y - 1)].energy
        left == IF x = 0 THEN up ELSE target.data[get_index(target, x - 1, y - 1)].energy
        right == IF x = maxwidth THEN up
                 ELSE target.data[get_index(target, x + 1, y - 1)].energy
    IN  IF up <= left /\ up <= right THEN x
        ELSE IF left <= right THEN x - 1
        ELSE x + 1

\* vertical_parent over x-1..=x only: the cell up-right is never a parent
vertical_parent_narrow(target, x, y) ==
    LET lo == IF x = 0 THEN 0 ELSE x - 1
        hi == x
    IN  min_by_key(lo, hi, [i \in lo..hi |-> target.data[get_index(target, i, y - 1)].energy])

\* the parent of (x, y): range.min_by_key(|x| target[(*x, y - 1)].energy)
vertical_parent(target, x, y) ==
    LET maxwidth == target.width - 1
        lo == IF x = 0 THEN 0 ELSE x - 1
        hi == IF x = maxwidth THEN maxwidth ELSE x + 1
    IN  min_by_key(lo, hi, [i \in lo..hi |-> target.data[get_index(target, i, y - 1)].energy])

\* for y in 1..height, for x in 0..width: cell k = y * width + x is filled
\* from the row above, which is already final
RECURSIVE vertical_fill(_, _, _)
vertical_fill(target, energy, k) ==
    IF k >= energy.width * energy.height THEN target
    ELSE LET x == k % energy.width
             y == k \div energy.width
             erg == energy.data[get_index(energy, x, y)]
             parent_x == vertical_parent(target, x, y)
             parent == target.data[get_index(target, parent_x, y - 1)]
             cell == Cell(erg + parent.energy, parent_x)
         IN  vertical_fill([target EXCEPT !.data[k + 1] = cell], energy, k + 1)

\* the target map of energy_to_vertical_seam once both loops have run
vertical_target(energy) ==
    LET first == [new_map(energy.width, energy.height, DefaultCell) EXCEPT
                    !.data = [k \in 1..(energy.width * energy.height) |->
                                IF k <= energy.width THEN Cell(energy.data[k], 0)
                                ELSE DefaultCell]]
    IN  vertical_fill(first, energy, energy.width)

\* trace_up that stops one row early: rows height-1 down to 1
RECURSIVE trace_up_short(_, _, _, _)
trace_up_short(target, y, seam_col, acc) ==
    IF y < 1 THEN acc
    ELSE trace_up_short(target, y - 1, target.data[get_index(target, seam_col, y)].parent,
                        Append(acc, seam_col))

\* (0..height).rev().fold(..): push seam_col, then follow the parent of
\* (seam_col, y); rows height-1 down to 0
RECURSIVE trace_up(_, _, _, _)
trace_up(target, y, seam_col, acc) ==
    IF y < 0 THEN acc
    ELSE trace_up(target, y - 1, target.data[get_index(target, seam_col, y)].parent,
                  Append(acc, seam_col))

energy_to_vertical_seam(energy) ==
    LET target == vertical_target(energy)
        seam_col == min_by_key(0, energy.width - 1,
                       [x \in 0..(energy.width - 1) |->
                           target.data[get_index(target, x, energy.height - 1)].energy])
    IN  reverse(trace_up(target, energy.height - 1, seam_col, <<>>))

\* horizontal_parent with the last of the minimal candidates, not the first
horizontal_parent_last(target, x, y) ==
    LET maxheight == target.height - 1
        lo == IF y = 0 THEN 0 ELSE y - 1
        hi == IF y = maxheight THEN maxheight ELSE y + 1
    IN  CHOOSE i \in lo..hi :
            \A j \in lo..hi :
                /\ target.data[get_index(target, x - 1, i)].energy
                      <= target.data[get_index(target, x - 1, j)].energy
                /\ j > i => target.data[get_index(target, x - 1, j)].energy
                               > target.data[get_index(target, x - 1, i)].energy

\* the parent of (x, y): range.min_by_key(|y| target[(x - 1, *y)].energy)
horizontal_parent(target, x, y) ==
    LET maxheight == target.height - 1
        lo == IF y = 0 THEN 0 ELSE y - 1
        hi == IF y = maxheight THEN maxheight ELSE y + 1
    IN  min_by_key(lo, hi, [j \in lo..hi |-> target.data[get_index(target, x - 1, j)].energy])

\* for x in 1..width, for y in 0..height: step k = x * height + y
RECURSIVE horizontal_fill(_, _, _)
horizontal_fill(target, energy, k) ==
    IF k >= energy.width * energy.height THEN target
    ELSE LET x == k \div energy.height
             y == k % energy.height
             erg == energy.data[get_index(energy, x, y)]
             parent_y == horizontal_parent(target, x, y)
             parent == target.data[get_index(target, x - 1, parent_y)]
             cell == Cell(erg + parent.energy, parent_y)
         IN  horizontal_fill([target EXCEPT !.data[get_index(target, x, y)] = cell],
                             energy, k + 1)

\* the target map of energy_to_horizontal_seam once both loops have run
horizontal_target(energy) ==
    LET first == [new_map(energy.width, energy.height, DefaultCell) EXCEPT
                    !.data = [k \in 1..(energy.width * energy.height) |->
                                IF (k - 1) % energy.width = 0 THEN Cell(energy.data[k], 0)
                                ELSE DefaultCell]]
    IN  horizontal_fill(first, energy, energy.height)

\* (0..width).rev().fold(..): push seam_col, then follow the parent of
\* (x, seam_col); columns width-1 down to 0
RECURSIVE trace_left(_, _, _, _)
trace_left(target, x, seam_col, acc) ==
    IF x < 0 THEN acc
    ELSE trace_left(target, x - 1, target.data[get_index(target, x, seam_col)].parent,
                    Append(acc, seam_col))

energy_to_horizontal_seam(energy) ==
    LET target == horizontal_target(energy)
        seam_col == min_by_key(0, energy.height - 1,
                       [y \in 0..(energy.height - 1) |->
                           target.data[get_index(target, energy.width - 1, y)].energy])
    IN  reverse(trace_left(target, energy.width - 1, seam_col, <<>>))

\* both finders of avisha1.rs index row 0 / column 0 of the map and unwrap
\* the minimum of 0..width (0..height): an empty grid panics in every build
energy_to_seam_base_panics(energy) == energy.width = 0 \/ energy.height = 0

(***************************************************************************)
(* flipper.rs                                                              *)
(***************************************************************************)
\* Flipper that swaps the dimensions and not the coordinates of get_pixel
Flipper_dimensions_only(img) ==
    [width |-> img.height, height |-> img.width, data |-> img.data]

\* Flipper: dimensions() = (height, width), get_pixel(x, y) = image.get_pixel(y, x)
Flipper(img) ==
    [width |-> img.height, height |-> img.width,
     data |-> [k \in 1..(img.width * img.height) |->
                 get_pixel(img, (k - 1) \div img.height, (k - 1) % img.height)]]

(***************************************************************************)
(* avisha2.rs: the forward-energy cost map                                 *)
(***************************************************************************)
\* epp: the distance between the pixels at two coordinates
epp(img, x1, y1, x2, y2) == energy_of_pair_luma(get_pixel(img, x1, y1), get_pixel(img, x2, y2))

epp_overflows(img, x1, y1, x2, y2) ==
    energy_of_pair_luma_overflows(get_pixel(img, x1, y1), get_pixel(img, x2, y2))

\* cost_up of cost_candidate_pixel
cost_up(img, x, y) ==
    LET y_above == y - 1
        max_width == img.width - 1
    IN  IF x = 0 THEN epp(img, x, y_above, x + 1, y_above)
        ELSE IF x = max_width THEN epp(img, x - 1, y_above, x, y_above)
        ELSE epp(img, x - 1, y_above, x + 1, y_above)

\* ccc that also replaces current_cost by a candidate of the same cost
ccc_or_equal(n, x_above, current_cost) ==
    IF n <= current_cost.energy THEN Cell(n, x_above) ELSE current_cost

\* the closure ccc: the candidate above at x_above, of total cost n,
\* replaces current_cost only when it is strictly cheaper
ccc(n, x_above, current_cost) ==
    IF n < current_cost.energy THEN Cell(n, x_above) ELSE current_cost

\* n of the closure ccc:
\* cost_up + energy[(x_above, y_above)].energy + epp((x, y_above), (x_above, y))
candidate_cost(img, energy, x, y, x_above, up) ==
    up + energy.data[get_index(energy, x_above, y - 1)].energy
       + epp(img, x, y - 1, x_above, y)

\* if x != 0 { current_cost = ccc(x - 1, current_cost) }
with_left(img, energy, x, y, up, current_cost) ==
    IF x # 0
    THEN ccc(candidate_cost(img, energy, x, y, x - 1, up), x - 1, current_cost)
    ELSE current_cost

\* if x != max_width { current_cost = ccc(x + 1, current_cost) }
with_right(img, energy, x, y, up, current_cost) ==
    IF x # img.width - 1
    THEN ccc(candidate_cost(img, energy, x, y, x + 1, up), x + 1, current_cost)
    ELSE current_cost

\* candidates with the parent of the candidate above left at its default, 0
candidates_noparent(img, energy, x, y, up) ==
    with_right(img, energy, x, y, up,
        with_left(img, energy, x, y, up,
            Cell(up + energy.data[get_index(energy, x, y - 1)].energy, 0)))

\* cost_candidate_pixel once cost_up is known: the candidate above first,
\* then the one to its left, then the one to its right
candidates(img, energy, x, y, up) ==
    with_right(img, energy, x, y, up,
        with_left(img, energy, x, y, up,
            Cell(up + energy.data[get_index(energy, x, y - 1)].energy, x)))

cost_candidate_pixel(img, energy, x, y) == candidates(img, energy, x, y, cost_up(img, x, y))

\* one of the distances cost_candidate_pixel takes at (x, y) overflows
cost_candidate_pixel_overflows(img, x, y) ==
    LET y_above == y - 1
        max_width == img.width - 1
    IN  \/ IF x = 0 THEN epp_overflows(img, x, y_above, x + 1, y_above)
           ELSE IF x = max_width THEN epp_overflows(img, x - 1, y_above, x, y_above)
           ELSE epp_overflows(img, x - 1, y_above, x + 1, y_above)
        \/ x # 0 /\ epp_overflows(img, x, y_above, x - 1, y)
        \/ x # max_width /\ epp_overflows(img, x, y_above, x + 1, y)

\* start_and_end that gives the last worker a segment like the others
start_and_end_even(index, segment_size, w, last_thread) ==
    << index * segment_size, (index + 1) * segment_size >>

\* start_and_end: <<start, end>> of the columns of worker `index`
start_and_end(index, segment_size, w, last_thread) ==
    << index * segment_size,
       IF index = last_thread THEN w ELSE (index + 1) * segment_size >>

\* (0..thread_count).map(|index| nursery.spawn(..)): one worker per index,
\* here as the range start_and_end gives it
handles(w, segment_size, thread_count) ==
    [i \in 1..thread_count |-> start_and_end(i - 1, segment_size, w, thread_count - 1)]

\* for x in sx..ex: segment.push(cost_candidate_pixel(image, &emap, (x, y)))
RECURSIVE segment_push(_, _, _, _, _, _)
segment_push(segment, x, ex, y, img, emap) ==
    IF x >= ex THEN segment
    ELSE segment_push(Append(segment, cost_candidate_pixel(img, emap, x, y)),
                      x + 1, ex, y, img, emap)

\* the segment worker `index` returns: one cell per x in sx..ex
segment_of(index, y, w, segment_size, thread_count, img, emap) ==
    LET se == start_and_end(index, segment_size, w, thread_count - 1)
    IN  segment_push(<<>>, se[1], se[2], y, img, emap)

\* handles.into_iter().enumerate().for_each: in the order of the indexes,
\* (row[sx..ex]).copy_from_slice(&segment)
RECURSIVE join_all(_, _, _, _, _, _, _, _)
join_all(row, index, y, w, segment_size, thread_count, img, emap) ==
    IF index >= thread_count THEN row
    ELSE LET se == start_and_end(index, segment_size, w, thread_count - 1)
             segment == segment_of(index, y, w, segment_size, thread_count, img, emap)
             copied == SubSeq(row, 1, se[1]) \o segment \o SubSeq(row, se[2] + 1, w)
         IN  join_all(copied, index + 1, y, w, segment_size, thread_count, img, emap)

\* calculate_one_row: the row once every worker has been joined
calculate_one_row(y, w, segment_size, thread_count, img, emap) ==
    join_all([k \in 1..w |-> DefaultCell], 0, y, w, segment_size, thread_count, img, emap)

\* calculate_one_row panics: a worker's range is no range of the row
\* (ex - sx underflows, row[sx..ex] is out of range), or a distance overflows
calculate_one_row_panics(y, w, segment_size, thread_count, img, checks) ==
    \E index \in 0..(thread_count - 1) :
        LET se == start_and_end(index, segment_size, w, thread_count - 1)
        IN  \/ se[1] > se[2]
            \/ se[2] > w
            \/ checks /\ \E x \in se[1]..(se[2] - 1) : cost_candidate_pixel_overflows(img, x, y)

\* TwoDimensionalMap::get_mut_row: row y of the flat storage, as the first
\* and the last of its indexes
get_mut_row(m, y) == <<get_index(m, 0, y), get_index(m, m.width - 1, y)>>

\* nebp and the three assignments of the top row
top_row_cell(img, x) ==
    LET mw == img.width - 1
    IN  IF x = 0 THEN Cell(epp(img, 0, 0, 1, 0), 0)
        ELSE IF x = mw THEN Cell(epp(img, mw - 1, 0, mw, 0), 0)
        ELSE Cell(epp(img, x - 1, 0, x + 1, 0), 0)

top_row_overflows(img) ==
    LET mw == img.width - 1
    IN  \/ epp_overflows(img, 0, 0, 1, 0)
        \/ epp_overflows(img, mw - 1, 0, mw, 0)
        \/ \E x \in 1..(mw - 1) : epp_overflows(img, x - 1, 0, x + 1, 0)

\* for y in 1..height: emap.get_mut_row(y).copy_from_slice(&row)
RECURSIVE cost_rows(_, _, _, _, _)
cost_rows(emap, img, y, segment_size, thread_count) ==
    IF y >= img.height THEN emap
    ELSE LET row == calculate_one_row(y, img.width, segment_size, thread_count, img, emap)
             erow == get_mut_row(emap, y)
             next == [emap EXCEPT !.data =
                         SubSeq(emap.data, 1, erow[1] - 1) \o row
                            \o SubSeq(emap.data, erow[2] + 1, emap.width * emap.height)]
         IN  cost_rows(next, img, y + 1, segment_size, thread_count)

\* calculate_cost, with thread_count = num_cpus::get()
calculate_cost(img, thread_count) ==
    LET first == [new_map(img.width, img.height, DefaultCell) EXCEPT
                    !.data = [k \in 1..(img.width * img.height) |->
                                IF k <= img.width THEN top_row_cell(img, k - 1)
                                ELSE DefaultCell]]
        segment_size == (img.width + 1) \div thread_count
    IN  cost_rows(first, img, 1, segment_size, thread_count)

\* calculate_cost panics.  In every build: get_pixel(0, 0) or get_pixel(1, 0)
\* is outside the image (width < 2 or height = 0; with width = 0 the
\* `width - 1` underflows first where overflow is checked).  Where overflow
\* is checked: a distance overflows.
calculate_cost_panics(img, thread_count, checks) ==
    \/ ~in_bounds(img, 0, 0)
    \/ ~in_bounds(img, 1, 0)
    \/ checks /\ top_row_overflows(img)
    \/ \E y \in 1..(img.height - 1) :
          calculate_one_row_panics(y, img.width, (img.width + 1) \div thread_count,
                                   thread_count, img, checks)

\* energy_to_seam: the cheapest cell of the last row, then the parents upwards
energy_to_seam(energy) ==
    LET seam_col == min_by_key(0, energy.width - 1,
                       [x \in 0..(energy.width - 1) |->
                           energy.data[get_index(energy, x, energy.height - 1)].energy])
    IN  reverse(trace_up(energy, energy.height - 1, seam_col, <<>>))

\* AviShaTwo::find_vertical_seam
find_vertical_seam(img, thread_count) == energy_to_seam(calculate_cost(img, thread_count))

\* find_horizontal_seam on the image itself, not on its Flipper
find_horizontal_seam_unflipped(img, thread_count) ==
    energy_to_seam(calculate_cost(img, thread_count))

\* AviShaTwo::find_horizontal_seam
find_horizontal_seam(img, thread_count) ==
    energy_to_seam(calculate_cost(Flipper(img), thread_count))

(***************************************************************************)
(* seamcarver.rs: the seam removers                                        *)
(***************************************************************************)
\* the column put_pixel writes the pixel of column x to, in row y
vertical_target_x(seam, x, y) == IF x < seam[y + 1] \/ x = 0 THEN x ELSE x - 1

\* for y in 0..height, for x in 0..width: step k = y * width + x puts the
\* pixel of (x, y) into imgbuf
RECURSIVE vertical_put(_, _, _, _)
vertical_put(imgbuf, img, seam, k) ==
    IF k >= img.width * img.height THEN imgbuf
    ELSE LET x == k % img.width
             y == k \div img.width
             pixel == get_pixel(img, x, y)
             at == get_index(imgbuf, vertical_target_x(seam, x, y), y)
         IN  vertical_put([imgbuf EXCEPT !.data[at] = pixel], img, seam, k + 1)

remove_vertical_seam(img, seam) ==
    vertical_put(new_map(img.width - 1, img.height, 0), img, seam, 0)

\* remove_vertical_seam panics: `width - 1` underflows (an image without
\* columns), the seam has no entry for a row, or put_pixel is out of bounds
remove_vertical_seam_panics(img, seam) ==
    \/ img.width = 0
    \/ \E x \in 0..(img.width - 1), y \in 0..(img.height - 1) :
          \/ y + 1 > Len(seam)
          \/ vertical_target_x(seam, x, y) >= img.width - 1

\* the row put_pixel writes the pixel of row y to, in column x
horizontal_target_y(seam, x, y) == IF y < seam[x + 1] \/ y = 0 THEN y ELSE y - 1

RECURSIVE horizontal_put(_, _, _, _)
horizontal_put(imgbuf, img, seam, k) ==
    IF k >= img.width * img.height THEN imgbuf
    ELSE LET x == k % img.width
             y == k \div img.width
             pixel == get_pixel(img, x, y)
             at == get_index(imgbuf, x, horizontal_target_y(seam, x, y))
         IN  horizontal_put([imgbuf EXCEPT !.data[at] = pixel], img, seam, k + 1)

remove_horizontal_seam(img, seam) ==
    horizontal_put(new_map(img.width, img.height - 1, 0), img, seam, 0)

remove_horizontal_seam_panics(img, seam) ==
    \/ img.height = 0
    \/ \E x \in 0..(img.width - 1), y \in 0..(img.height - 1) :
          \/ x + 1 > Len(seam)
          \/ horizontal_target_y(seam, x, y) >= img.height - 1

(***************************************************************************)
(* Inputs                                                                  *)
(***************************************************************************)
\* the sizes of the enumerated images: at least one pixel, at most MaxCells
Sizes == {wh \in (1..MaxCells) \X (1..MaxCells) : wh[1] * wh[2] <= MaxCells}

\* every image of those sizes over the samples Lumas
Grids ==
    UNION {[width : {wh[1]}, height : {wh[2]}, data : [1..(wh[1] * wh[2]) -> Lumas]] :
             wh \in Sizes}

\* every vertical seam of an image: one column per row
VerticalSeams(img) == [1..img.height -> 0..(img.width - 1)]

\* every horizontal seam of an image: one row per column
HorizontalSeams(img) == [1..img.width -> 0..(img.height - 1)]

NoImage == [width |-> 0, height |-> 0, data |-> <<>>]

\* the locals of calculate_cost, while no call is followed step by step
NoBuilder ==
    [pc |-> "idle", emap |-> NoImage, y |-> 0, thread_count |-> 0, segment_size |-> 0,
     row |-> <<>>, handles |-> <<>>, joined |-> 0, reads |-> {}, written |-> {}]

\* the variables of the carve loop, while no carve is running
CarveIdle ==
    /\ newwidth = 0
    /\ newheight = 0
    /\ scratch = NoImage
    /\ width = 0
    /\ height = 0
    /\ direction = "Width"
    /\ pc = "idle"
    /\ trail = <<>>

carve_vars == <<newwidth, newheight, scratch, width, height, direction, pc, trail>>

(***************************************************************************)
(* The pixel-pair distance, one call on one pair of Luma<u8> pixels        *)
(***************************************************************************)
InitPair ==
    /\ overflow_checks \in BOOLEAN
    /\ image = NoImage
    /\ arg_seam = <<>>
    /\ pixels \in Samples \X Samples
    /\ num_cpus = 0
    /\ builder = NoBuilder
    /\ op = "none"
    /\ ret = Returned(<<>>)
    /\ CarveIdle

\* energy_of_pair_luma(p1, p2) as a call: its value, or its panic where an
\* overflow panics
pair_call(p1, p2, checks) ==
    IF checks /\ energy_of_pair_luma_overflows(p1, p2) THEN Panicked
    ELSE Returned(energy_of_pair_luma(p1, p2))

CallEnergyOfPairLuma ==
    /\ op = "none"
    /\ op' = "energy_of_pair_luma"
    /\ ret' = pair_call(pixels[1], pixels[2], overflow_checks)
    /\ UNCHANGED <<overflow_checks, image, arg_seam, pixels, num_cpus, builder>>
    /\ UNCHANGED carve_vars

NextPair == CallEnergyOfPairLuma

SpecPair == InitPair /\ [][NextPair]_vars

(***************************************************************************)
(* The seam finders and the energy map, one call on one input              *)
(***************************************************************************)
InitFinder ==
    /\ overflow_checks \in BOOLEAN
    /\ image \in Grids \cup {Fixture}
    /\ arg_seam = <<>>
    /\ pixels = <<>>
    /\ num_cpus \in 1..MaxThreads
    /\ builder = NoBuilder
    /\ op = "none"
    /\ ret = Returned(<<>>)
    /\ CarveIdle

Call(name, panics, value) ==
    /\ op = "none"
    /\ op' = name
    /\ ret' = IF panics THEN Panicked ELSE Returned(value)
    /\ UNCHANGED <<overflow_checks, image, arg_seam, pixels, num_cpus, builder>>
    /\ UNCHANGED carve_vars

CallCalculateEnergy ==
    Call("calculate_energy", calculate_energy_panics(image, overflow_checks),
         calculate_energy(image))

CallEnergyToVerticalSeam ==
    Call("energy_to_vertical_seam", energy_to_seam_base_panics(image),
         energy_to_vertical_seam(image))

CallEnergyToHorizontalSeam ==
    Call("energy_to_horizontal_seam", energy_to_seam_base_panics(image),
         energy_to_horizontal_seam(image))

CallFindVerticalSeam ==
    Call("find_vertical_seam", calculate_cost_panics(image, num_cpus, overflow_checks),
         find_vertical_seam(image, num_cpus))

CallFindHorizontalSeam ==
    Call("find_horizontal_seam",
         calculate_cost_panics(Flipper(image), num_cpus, overflow_checks),
         find_horizontal_seam(image, num_cpus))

\* the cost map find_vertical_seam hands to energy_to_seam
CallCalculateCost ==
    Call("calculate_cost", calculate_cost_panics(image, num_cpus, overflow_checks),
         calculate_cost(image, num_cpus))

\* the workers calculate_one_row spawns for one row of the image
CallSpawn ==
    Call("spawn", FALSE,
         handles(image.width, (image.width + 1) \div num_cpus, num_cpus))

NextFinder ==
    \/ CallCalculateEnergy
    \/ CallEnergyToVerticalSeam
    \/ CallEnergyToHorizontalSeam
    \/ CallFindVerticalSeam
    \/ CallFindHorizontalSeam
    \/ CallCalculateCost
    \/ CallSpawn

SpecFinder == InitFinder /\ [][NextFinder]_vars

(***************************************************************************)
(* calculate_cost step by step: the row loop, the workers of a row running *)
(* in any order between their spawn and their join, and the copy of the    *)
(* finished row into the map.  builder holds the locals of the call:       *)
(*   pc            where the calling thread is                             *)
(*   emap, y       the map and the row of the loop                         *)
(*   thread_count, segment_size                                            *)
(*   row           the row of calculate_one_row                            *)
(*   handles       one record per spawned worker: its range sx..ex, the    *)
(*                 segment it has pushed so far, and its state             *)
(*   joined        how many handles the for_each has joined                *)
(*   reads         the cells of emap the workers of this row have read     *)
(*   written       the cells of emap that have been assigned               *)
(***************************************************************************)
RowImages == {g \in Grids : g.width * g.height <= MaxRowCells}

InitRows ==
    /\ overflow_checks \in BOOLEAN
    /\ image \in RowImages
    /\ arg_seam = <<>>
    /\ pixels = <<>>
    /\ num_cpus \in 1..MaxThreads
    /\ builder = [NoBuilder EXCEPT !.pc = "start"]
    /\ op = "calculate_cost"
    /\ ret = Returned(<<>>)
    /\ CarveIdle

rows_frame == <<overflow_checks, image, arg_seam, pixels, num_cpus, op>>

\* the cells of the map cost_candidate_pixel indexes at (x, y):
\* energy[(x, y_above)], and energy[(x_above, y_above)] in both calls of ccc
energy_reads(img, x, y) ==
    LET y_above == y - 1
        max_width == img.width - 1
    IN  {<<x, y_above>>}
           \cup (IF x # 0 THEN {<<x - 1, y_above>>} ELSE {})
           \cup (IF x # max_width THEN {<<x + 1, y_above>>} ELSE {})

\* the map once the corners and the rest of the top row are assigned
first_rows(img) ==
    [new_map(img.width, img.height, DefaultCell) EXCEPT
        !.data = [k \in 1..(img.width * img.height) |->
                    IF k <= img.width THEN top_row_cell(img, k - 1) ELSE DefaultCell]]

\* calculate_cost down to the row loop: the map, the top row, thread_count
\* and segment_size
RowsEnter ==
    /\ builder.pc = "start"
    /\ IF \/ ~in_bounds(image, 0, 0)
          \/ ~in_bounds(image, 1, 0)
          \/ overflow_checks /\ top_row_overflows(image)
       THEN /\ builder' = [builder EXCEPT !.pc = "panicked"]
            /\ ret' = Panicked
       ELSE /\ builder' = [builder EXCEPT
                             !.pc = "loop",
                             !.emap = first_rows(image),
                             !.y = 1,
                             !.thread_count = num_cpus,
                             !.segment_size = (image.width + 1) \div num_cpus,
                             !.written = {<<x, 0>> : x \in 0..(image.width - 1)}]
            /\ UNCHANGED ret
    /\ UNCHANGED rows_frame
    /\ UNCHANGED carve_vars

\* for y in 1..height: calculate_one_row is entered, `row` is made
RowsBegin ==
    /\ builder.pc = "loop"
    /\ builder.y < image.height
    /\ builder' = [builder EXCEPT
                     !.pc = "spawn",
                     !.row = [k \in 1..image.width |-> DefaultCell],
                     !.handles = <<>>,
                     !.joined = 0,
                     !.reads = {}]
    /\ UNCHANGED <<ret, rows_frame>>
    /\ UNCHANGED carve_vars

\* nursery.spawn for the next index; the worker takes its range and an empty
\* segment.  After the last index the handles are collected.
RowsSpawn ==
    /\ builder.pc = "spawn"
    /\ LET index == Len(builder.handles)
           se == start_and_end(index, builder.segment_size, image.width,
                               builder.thread_count - 1)
           worker == [sx |-> se[1], ex |-> se[2], segment |-> <<>>,
                      state |-> IF se[1] > se[2] THEN "panicked" ELSE "running"]
       IN  builder' = [builder EXCEPT
                         !.handles = Append(builder.handles, worker),
                         !.pc = IF index + 1 = builder.thread_count THEN "join"
                                ELSE "spawn"]
    /\ UNCHANGED <<ret, rows_frame>>
    /\ UNCHANGED carve_vars

\* one step of worker i: the next x of `for x in sx..ex` is costed and
\* pushed, or the loop is over and the segment is returned
RowsWorker(i) ==
    /\ builder.pc \in {"spawn", "join"}
    /\ i \in 1..Len(builder.handles)
    /\ builder.handles[i].state = "running"
    /\ LET worker == builder.handles[i]
           x == worker.sx + Len(worker.segment)
       IN  IF x >= worker.ex
           THEN builder' = [builder EXCEPT !.handles[i].state = "finished"]
           ELSE IF overflow_checks /\ cost_candidate_pixel_overflows(image, x, builder.y)
           THEN builder' = [builder EXCEPT !.handles[i].state = "panicked"]
           ELSE builder' = [builder EXCEPT
                              !.handles[i].segment =
                                  Append(worker.segment,
                                         cost_candidate_pixel(image, builder.emap, x,
                                                              builder.y)),
                              !.reads = builder.reads
                                           \cup energy_reads(image, x, builder.y)]
    /\ UNCHANGED <<ret, rows_frame>>
    /\ UNCHANGED carve_vars

RowsJoin_unfinished ==
    /\ builder.pc = "join"
    /\ builder.joined < builder.thread_count
    /\ LET worker == builder.handles[builder.joined + 1]
           segment == [k \in 1..(worker.ex - worker.sx) |->
                          IF k <= Len(worker.segment) THEN worker.segment[k]
                          ELSE DefaultCell]
       IN  IF worker.state = "panicked"
           THEN /\ builder' = [builder EXCEPT !.pc = "panicked"]
                /\ ret' = Panicked
           ELSE /\ builder' = [builder EXCEPT
                                 !.row = SubSeq(builder.row, 1, worker.sx)
                                            \o segment
                                            \o SubSeq(builder.row, worker.ex + 1,
                                                      image.width),
                                 !.handles[builder.joined + 1].state = "finished",
                                 !.joined = builder.joined + 1]
                /\ UNCHANGED ret
    /\ UNCHANGED rows_frame
    /\ UNCHANGED carve_vars

RowsJoin_into_grid ==
    /\ builder.pc = "join"
    /\ builder.joined < builder.thread_count
    /\ LET worker == builder.handles[builder.joined + 1]
           erow == get_mut_row(builder.emap, builder.y)
           copied == SubSeq(builder.row, 1, worker.sx) \o worker.segment
                        \o SubSeq(builder.row, worker.ex + 1, image.width)
       IN  /\ worker.state \in {"finished", "panicked"}
           /\ IF worker.state = "panicked"
              THEN /\ builder' = [builder EXCEPT !.pc = "panicked"]
                   /\ ret' = Panicked
              ELSE /\ builder' = [builder EXCEPT
                                    !.row = copied,
                                    !.emap.data = SubSeq(builder.emap.data, 1, erow[1] - 1)
                                                     \o copied
                                                     \o SubSeq(builder.emap.data, erow[2] + 1,
                                                               image.width * image.height),
                                    !.written = builder.written
                                                   \cup {<<x, builder.y>> :
                                                           x \in worker.sx..(worker.ex - 1)},
                                    !.joined = builder.joined + 1]
                   /\ UNCHANGED ret
    /\ UNCHANGED rows_frame
    /\ UNCHANGED carve_vars

\* handle.join().unwrap() of the next handle, which waits for its worker,
\* then (row[sx..ex]).copy_from_slice(&segment)
RowsJoin ==
    /\ builder.pc = "join"
    /\ builder.joined < builder.thread_count
    /\ LET worker == builder.handles[builder.joined + 1]
       IN  /\ worker.state \in {"finished", "panicked"}
           /\ IF worker.state = "panicked"
              THEN /\ builder' = [builder EXCEPT !.pc = "panicked"]
                   /\ ret' = Panicked
              ELSE /\ builder' = [builder EXCEPT
                                    !.row = SubSeq(builder.row, 1, worker.sx)
                                               \o worker.segment
                                               \o SubSeq(builder.row, worker.ex + 1,
                                                         image.width),
                                    !.joined = builder.joined + 1]
                   /\ UNCHANGED ret
    /\ UNCHANGED rows_frame
    /\ UNCHANGED carve_vars

\* every handle is joined: calculate_one_row returns `row`, and
\* emap.get_mut_row(y).copy_from_slice(&row)
RowsCopy ==
    /\ builder.pc = "join"
    /\ builder.joined = builder.thread_count
    /\ LET erow == get_mut_row(builder.emap, builder.y)
       IN  builder' = [builder EXCEPT
                         !.pc = "loop",
                         !.emap.data = SubSeq(builder.emap.data, 1, erow[1] - 1)
                                          \o builder.row
                                          \o SubSeq(builder.emap.data, erow[2] + 1,
                                                    image.width * image.height),
                         !.written = builder.written
                                        \cup {<<x, builder.y>> : x \in 0..(image.width - 1)},
                         !.handles = <<>>,
                         !.y = builder.y + 1]
    /\ UNCHANGED <<ret, rows_frame>>
    /\ UNCHANGED carve_vars

\* the row loop is over: calculate_cost returns emap
RowsReturn ==
    /\ builder.pc = "loop"
    /\ builder.y >= image.height
    /\ builder' = [builder EXCEPT !.pc = "returned"]
    /\ ret' = Returned(builder.emap)
    /\ UNCHANGED rows_frame
    /\ UNCHANGED carve_vars

NextRows ==
    \/ RowsEnter
    \/ RowsBegin
    \/ RowsSpawn
    \/ \E i \in 1..MaxThreads : RowsWorker(i)
    \/ RowsJoin
    \/ RowsCopy
    \/ RowsReturn

SpecRows == InitRows /\ [][NextRows]_vars

(***************************************************************************)
(* The seam removers, one call on one image and one seam                   *)
(***************************************************************************)
InitRemove ==
    /\ overflow_checks \in BOOLEAN
    /\ image \in Grids
    /\ arg_seam \in VerticalSeams(image) \cup HorizontalSeams(image)
    /\ pixels = <<>>
    /\ num_cpus = 0
    /\ builder = NoBuilder
    /\ op = "none"
    /\ ret = Returned(<<>>)
    /\ CarveIdle

CallRemoveVerticalSeam ==
    /\ arg_seam \in VerticalSeams(image)
    /\ Call("remove_vertical_seam", remove_vertical_seam_panics(image, arg_seam),
            remove_vertical_seam(image, arg_seam))

CallRemoveHorizontalSeam ==
    /\ arg_seam \in HorizontalSeams(image)
    /\ Call("remove_horizontal_seam", remove_horizontal_seam_panics(image, arg_seam),
            remove_horizontal_seam(image, arg_seam))

NextRemove ==
    \/ CallRemoveVerticalSeam
    \/ CallRemoveHorizontalSeam

SpecRemove == InitRemove /\ [][NextRemove]_vars

(***************************************************************************)
(* seamcarver.rs: carveonce and SeamCarver::carve                          *)
(***************************************************************************)
\* turn that leaves the direction as it is
turn_stays(d) == d

\* Carve::turn
turn(d) == IF d = "Width" THEN "Height" ELSE "Width"

\* carveonce, its first statement: the seam AviShaTwo finds along d, with
\* n = num_cpus::get() at the time of the call, or the panic of the finder
carveonce_find(img, d, n, checks) ==
    IF d = "Height"
    THEN IF calculate_cost_panics(Flipper(img), n, checks) THEN Panicked
         ELSE Returned(find_horizontal_seam(img, n))
    ELSE IF calculate_cost_panics(img, n, checks) THEN Panicked
         ELSE Returned(find_vertical_seam(img, n))

\* carveonce, its second statement: the image without the seam, or the
\* panic of the remover
carveonce_remove(img, d, seam) ==
    IF d = "Height"
    THEN IF remove_horizontal_seam_panics(img, seam) THEN Panicked
         ELSE Returned(remove_horizontal_seam(img, seam))
    ELSE IF remove_vertical_seam_panics(img, seam) THEN Panicked
         ELSE Returned(remove_vertical_seam(img, seam))

Ok(v) == [ok |-> TRUE, val |-> v]

Err(e) == [ok |-> FALSE, val |-> e]

\* the targets tried on an image: every size up to one more than its own
Targets(n) == 0..(n + 1)

\* the images handed to carve: the small ones and the square ones
CarveImages ==
    {g \in Grids : g.width * g.height <= MaxCarveCells \/ g.width = g.height}

InitCarve ==
    /\ overflow_checks \in BOOLEAN
    /\ image \in CarveImages
    /\ arg_seam = <<>>
    /\ pixels = <<>>
    /\ num_cpus = 0
    /\ builder = NoBuilder
    /\ op = "carve"
    /\ ret = Returned(<<>>)
    /\ newwidth \in Targets(image.width)
    /\ newheight \in Targets(image.height)
    /\ scratch = NoImage
    /\ width = 0
    /\ height = 0
    /\ direction = "Width"
    /\ pc = "start"
    /\ trail = <<>>

carve_inputs == <<overflow_checks, image, pixels, num_cpus, builder, op, newwidth, newheight>>

\* CarveEnter that refuses only when both targets exceed the image
CarveEnter_and ==
    /\ pc = "start"
    /\ width' = image.width
    /\ height' = image.height
    /\ IF image.width < newwidth /\ image.height < newheight
       THEN /\ pc' = "returned"
            /\ ret' = Returned(Err("seamcarve cannot upscale an image"))
            /\ UNCHANGED <<scratch, direction>>
       ELSE /\ pc' = "both"
            /\ direction' = "Width"
            /\ scratch' = [width |-> image.width, height |-> image.height,
                           data |-> image.data]
            /\ UNCHANGED ret
    /\ UNCHANGED <<trail, arg_seam>>
    /\ UNCHANGED carve_inputs

\* CarveEnter that leaves scratch as ImageBuffer::new made it
CarveEnter_blank ==
    /\ pc = "start"
    /\ width' = image.width
    /\ height' = image.height
    /\ IF image.width < newwidth \/ image.height < newheight
       THEN /\ pc' = "returned"
            /\ ret' = Returned(Err("seamcarve cannot upscale an image"))
            /\ UNCHANGED <<scratch, direction>>
       ELSE /\ pc' = "both"
            /\ direction' = "Width"
            /\ scratch' = new_map(image.width, image.height, 0)
            /\ UNCHANGED ret
    /\ UNCHANGED <<trail, arg_seam>>
    /\ UNCHANGED carve_inputs

\* lines 148-156: the upscale check, then the copy of the image into scratch
CarveEnter ==
    /\ pc = "start"
    /\ width' = image.width
    /\ height' = image.height
    /\ IF image.width < newwidth \/ image.height < newheight
       THEN /\ pc' = "returned"
            /\ ret' = Returned(Err("seamcarve cannot upscale an image"))
            /\ UNCHANGED <<scratch, direction>>
       ELSE /\ pc' = "both"
            /\ direction' = "Width"
            /\ scratch' = [width |-> image.width, height |-> image.height,
                           data |-> image.data]
            /\ UNCHANGED ret
    /\ UNCHANGED <<trail, arg_seam>>
    /\ UNCHANGED carve_inputs

\* carveonce is entered and finds its seam; a panic unwinds out of carve
CarveOnceFound(found, next) ==
    IF found.panic
    THEN /\ pc' = "panicked"
         /\ ret' = Panicked
         /\ UNCHANGED arg_seam
    ELSE /\ pc' = next
         /\ arg_seam' = found.val
         /\ UNCHANGED ret

CarveOnceFind(d, next) ==
    /\ trail' = Append(trail, d)
    /\ \E n \in 1..MaxThreads :
          CarveOnceFound(carveonce_find(scratch, d, n, overflow_checks), next)
    /\ UNCHANGED <<scratch, width, height, direction>>
    /\ UNCHANGED carve_inputs

\* carveonce removes the seam and returns the new image, which becomes scratch
CarveOnceRemoved(carved, next) ==
    IF carved.panic
    THEN /\ pc' = "panicked"
         /\ ret' = Panicked
         /\ UNCHANGED scratch
    ELSE /\ pc' = next
         /\ scratch' = carved.val
         /\ UNCHANGED ret

CarveOnceRemove(d, next) ==
    /\ CarveOnceRemoved(carveonce_remove(scratch, d, arg_seam), next)
    /\ UNCHANGED <<arg_seam, trail>>
    /\ UNCHANGED carve_inputs

\* lines 158-159: while width > newwidth && height > newheight, carveonce
CarveBoth ==
    /\ pc = "both"
    /\ width > newwidth /\ height > newheight
    /\ CarveOnceFind(direction, "both_remove")

\* lines 159-162: scratch = the carved image, the direction turns, width and
\* height are read back from scratch
CarveBothRemove ==
    /\ pc = "both_remove"
    /\ CarveOnceRemove(direction, "both")
    /\ IF pc' = "panicked"
       THEN UNCHANGED <<direction, width, height>>
       ELSE /\ direction' = turn(direction)
            /\ width' = scratch'.width
            /\ height' = scratch'.height

CarveBothDone ==
    /\ pc = "both"
    /\ ~(width > newwidth /\ height > newheight)
    /\ pc' = "width"
    /\ UNCHANGED <<ret, scratch, width, height, direction, trail, arg_seam>>
    /\ UNCHANGED carve_inputs

\* CarveWidth whose loop runs while width >= newwidth
CarveWidth_through ==
    /\ pc = "width"
    /\ width >= newwidth
    /\ CarveOnceFind("Width", "width_remove")

\* lines 165-166: while width > newwidth, carveonce along the width
CarveWidth ==
    /\ pc = "width"
    /\ width > newwidth
    /\ CarveOnceFind("Width", "width_remove")

\* lines 166-167: scratch = the carved image, width is read back
CarveWidthRemove ==
    /\ pc = "width_remove"
    /\ CarveOnceRemove("Width", "width")
    /\ IF pc' = "panicked"
       THEN UNCHANGED width
       ELSE width' = scratch'.width
    /\ UNCHANGED <<direction, height>>

CarveWidthDone ==
    /\ pc = "width"
    /\ ~(width > newwidth)
    /\ pc' = "height"
    /\ UNCHANGED <<ret, scratch, width, height, direction, trail, arg_seam>>
    /\ UNCHANGED carve_inputs

\* lines 170-171: while height > newheight, carveonce along the height
CarveHeight ==
    /\ pc = "height"
    /\ height > newheight
    /\ CarveOnceFind("Height", "height_remove")

\* lines 171-172: scratch = the carved image, height is read back
CarveHeightRemove ==
    /\ pc = "height_remove"
    /\ CarveOnceRemove("Height", "height")
    /\ IF pc' = "panicked"
       THEN UNCHANGED height
       ELSE height' = scratch'.height
    /\ UNCHANGED <<direction, width>>

\* line 175: Ok(scratch)
CarveReturn ==
    /\ pc = "height"
    /\ ~(height > newheight)
    /\ pc' = "returned"
    /\ ret' = Returned(Ok(scratch))
    /\ UNCHANGED <<scratch, width, height, direction, trail, arg_seam>>
    /\ UNCHANGED carve_inputs

NextCarve ==
    \/ CarveEnter
    \/ CarveBoth
    \/ CarveBothRemove
    \/ CarveBothDone
    \/ CarveWidth
    \/ CarveWidthRemove
    \/ CarveWidthDone
    \/ CarveHeight
    \/ CarveHeightRemove
    \/ CarveReturn

SpecCarve == InitCarve /\ [][NextCarve]_vars

(***************************************************************************)
(* Properties                                                              *)
(***************************************************************************)
VerticalOps == {"energy_to_vertical_seam", "find_vertical_seam"}

HorizontalOps == {"energy_to_horizontal_seam", "find_horizontal_seam"}

\* a seam finder was called and returned a seam
SeamReturned == op \in VerticalOps \cup HorizontalOps /\ ~ret.panic

\* the squared difference of two luma samples
SquaredDifference(a, b) == (a - b) * (a - b)

\* the pixel at (x, y), or the pixel at (cx, cy) when (x, y) is outside the image
Clamped(img, x, y, cx, cy) ==
    IF in_bounds(img, x, y) THEN get_pixel(img, x, y) ELSE get_pixel(img, cx, cy)

Uniform(img) == \A k \in DOMAIN img.data : img.data[k] = img.data[1]

CarveEnded == pc \in {"returned", "panicked"}

\* C1: remove_vertical_seam, on an image at least 2 wide and a seam of one
\* in-range column per row, returns the image one column narrower in which
\* every row is the original row without the pixel at seam[r]: the columns
\* before it unchanged, the columns after it shifted left by one.
C1_SeamPixelDeleted ==
    (op = "remove_vertical_seam" /\ image.width >= 2) =>
        /\ ~ret.panic
        /\ ret.val.width = image.width - 1
        /\ ret.val.height = image.height
        /\ \A y \in 0..(image.height - 1), x \in 0..(image.width - 2) :
              get_pixel(ret.val, x, y) =
                 IF x < arg_seam[y + 1] THEN get_pixel(image, x, y)
                 ELSE get_pixel(image, x + 1, y)

\* C2: carve with targets 1 <= w <= W and 1 <= h <= H ends by returning Ok
\* with an image of exactly w by h.
C2_CarveReachesTarget ==
    (CarveEnded /\ 1 <= newwidth /\ newwidth <= image.width
                /\ 1 <= newheight /\ newheight <= image.height) =>
        /\ ~ret.panic
        /\ ret.val.ok
        /\ ret.val.val.width = newwidth
        /\ ret.val.val.height = newheight

\* C3: when a target exceeds the image, carve returns an error and nothing
\* else happens on the call: scratch is never made, carveonce is never
\* called, no seam is found or removed.
C3_UpscaleRejected ==
    (newwidth > image.width \/ newheight > image.height) =>
        /\ pc \in {"start", "returned"}
        /\ pc = "returned" => (~ret.panic /\ ~ret.val.ok)
        /\ trail = <<>>
        /\ arg_seam = <<>>
        /\ scratch = NoImage

C3_Witness ==
    /\ pc = "returned"
    /\ newwidth > image.width
    /\ newheight <= image.height
    /\ ~ret.val.ok

\* C4: with targets equal to the size of the image, carve never calls
\* carveonce and returns Ok with an image equal to the input, pixel for pixel.
C4_SameSizeIsCopy ==
    (newwidth = image.width /\ newheight = image.height) =>
        /\ trail = <<>>
        /\ pc \in {"start", "both", "width", "height", "returned"}
        /\ pc = "returned" => ret = Returned(Ok(image))

C4_Witness ==
    /\ pc = "returned"
    /\ newwidth = image.width
    /\ newheight = image.height
    /\ image.width >= 2
    /\ image.data[1] # image.data[2]
    /\ ret.val.ok

\* C5: a vertical seam that is returned has one entry per row (height
\* entries), a horizontal seam one per column (width entries), for the
\* finders over an energy grid and for AviShaTwo.
C5_SeamLength ==
    SeamReturned =>
        /\ op \in VerticalOps => Len(ret.val) = image.height
        /\ op \in HorizontalOps => Len(ret.val) = image.width

C5_Witness ==
    /\ op = "find_horizontal_seam"
    /\ ~ret.panic
    /\ image.width = 3
    /\ image.height = 2
    /\ Len(ret.val) = 3

\* C6: consecutive entries of a returned seam differ by at most 1.
C6_SeamConnected ==
    SeamReturned =>
        \A i \in 1..(Len(ret.val) - 1) :
            /\ ret.val[i + 1] - ret.val[i] <= 1
            /\ ret.val[i] - ret.val[i + 1] <= 1

C6_Witness ==
    /\ op = "find_vertical_seam"
    /\ ~ret.panic
    /\ image.width = 3
    /\ \E i \in 1..(Len(ret.val) - 1) : ret.val[i + 1] = ret.val[i] + 1

\* C7: every entry of a returned vertical seam is a column of the image,
\* every entry of a returned horizontal seam a row of it.
C7_SeamInRange ==
    SeamReturned =>
        \A i \in 1..Len(ret.val) :
            /\ ret.val[i] >= 0
            /\ op \in VerticalOps => ret.val[i] < image.width
            /\ op \in HorizontalOps => ret.val[i] < image.height

C7_Witness ==
    /\ op = "find_horizontal_seam"
    /\ ~ret.panic
    /\ image.width > image.height
    /\ \E i \in 1..Len(ret.val) : ret.val[i] = image.height - 1

\* C8: on the 5 by 4 grid of the tests, energy_to_vertical_seam returns
\* [2, 3, 4, 3] and energy_to_horizontal_seam returns [0, 1, 0, 1, 2].
C8_FixtureSeams ==
    image = Fixture =>
        /\ op = "energy_to_vertical_seam" => ret = Returned(<<2, 3, 4, 3>>)
        /\ op = "energy_to_horizontal_seam" => ret = Returned(<<0, 1, 0, 1, 2>>)

C8_Witness ==
    /\ image = Fixture
    /\ op = "energy_to_vertical_seam"
    /\ ret.val = <<2, 3, 4, 3>>

\* C9: calculate_energy stores, at every (x, y), the squared difference of
\* the left and right neighbours plus that of the upper and lower ones, a
\* neighbour outside the image being the pixel at (x, y) itself; on the 5 by
\* 4 image of the tests that is the map of the test.
C9_EnergyIsClampedGradient ==
    op = "calculate_energy" =>
        /\ ~ret.panic
        /\ \A x \in 0..(image.width - 1), y \in 0..(image.height - 1) :
              ret.val.data[get_index(image, x, y)] =
                 SquaredDifference(Clamped(image, x - 1, y, x, y), Clamped(image, x + 1, y, x, y))
                 + SquaredDifference(Clamped(image, x, y - 1, x, y), Clamped(image, x, y + 1, x, y))
        /\ image = Fixture =>
              ret.val.data = <<0, 145, 81, 82, 0,  64, 0, 130, 0, 82,
                               0, 64, 0, 145, 81,  0, 0, 81, 81, 162>>

\* what C9 says of the builds in which u32 overflow wraps
C9_WhereOverflowWraps == ~overflow_checks => C9_EnergyIsClampedGradient

\* what C2 says of the builds in which u32 overflow wraps
C2_WhereOverflowWraps == ~overflow_checks => C2_CarveReachesTarget

\* C10: calculate_energy of an image whose pixels are all the same returns
\* a map that is 0 everywhere.
C10_UniformIsZero ==
    (op = "calculate_energy" /\ Uniform(image)) =>
        /\ ~ret.panic
        /\ \A k \in DOMAIN ret.val.data : ret.val.data[k] = 0

C10_Witness ==
    /\ op = "calculate_energy"
    /\ Uniform(image)
    /\ image.width = 3
    /\ image.height = 3
    /\ image.data[1] = 2
    /\ ~ret.panic

\* C11: energy_of_pair_luma is symmetric, energy_of_pair_luma(p1, p2) =
\* energy_of_pair_luma(p2, p1) for every pair of samples, and it is 0 exactly
\* when the two samples are equal.
C11_PairSymmetricZeroIffEqual ==
    op = "energy_of_pair_luma" =>
        /\ ~ret.panic
        /\ ret = pair_call(pixels[2], pixels[1], overflow_checks)
        /\ ret.val = 0 <=> pixels[1] = pixels[2]

\* what C11 says of the builds in which u32 overflow wraps
C11_WhereOverflowWraps == ~overflow_checks => C11_PairSymmetricZeroIffEqual

\* the cell of a cost map at (x, y)
CostCell(emap, x, y) == emap.data[get_index(emap, x, y)]

\* the columns of row y - 1 a seam through (x, y) can come from
Predecessors(img, x) == {c \in {x, x - 1, x + 1} : 0 <= c /\ c < img.width}

\* the place of a predecessor in the order up, up-left, up-right
CandidateOrder(x, c) == IF c = x THEN 0 ELSE IF c = x - 1 THEN 1 ELSE 2

\* the cumulative cost of the predecessor c plus the cost of the transition
\* from it to (x, y), the transition being costed as the builder costs it
CandidateTotal(emap, img, x, y, c) ==
    CostCell(emap, c, y - 1).energy + cost_up(img, x, y)
        + (IF c = x THEN 0 ELSE epp(img, x, y - 1, c, y))

\* C12: in the cost map calculate_cost returns, every cell (x, y) with
\* y >= 1 holds the least of the totals of its candidates (the cumulative
\* cost of the predecessor plus the transition cost) and, as parent, the
\* column of that candidate; of several candidates with the least total it
\* is the first in the order up, up-left, up-right.
C12_CheapestCandidateFirstWins ==
    (op = "calculate_cost" /\ ~ret.panic) =>
        \A x \in 0..(image.width - 1), y \in 1..(image.height - 1) :
            /\ CostCell(ret.val, x, y).parent \in Predecessors(image, x)
            /\ CostCell(ret.val, x, y).energy =
                  CandidateTotal(ret.val, image, x, y, CostCell(ret.val, x, y).parent)
            /\ \A c \in Predecessors(image, x) :
                  \/ CandidateTotal(ret.val, image, x, y, c) > CostCell(ret.val, x, y).energy
                  \/ /\ CandidateTotal(ret.val, image, x, y, c) = CostCell(ret.val, x, y).energy
                     /\ CandidateOrder(x, c) >= CandidateOrder(x, CostCell(ret.val, x, y).parent)

\* a returned cost map with a cell whose candidates up and up-left tie for
\* the least total, and a cell whose parent is the candidate up-right
C12_Witness ==
    /\ op = "calculate_cost"
    /\ ~ret.panic
    /\ \E x \in 1..(image.width - 1), y \in 1..(image.height - 1) :
          /\ CandidateTotal(ret.val, image, x, y, x) = CostCell(ret.val, x, y).energy
          /\ CandidateTotal(ret.val, image, x, y, x - 1) = CostCell(ret.val, x, y).energy
    /\ \E x \in 0..(image.width - 2), y \in 1..(image.height - 1) :
          CostCell(ret.val, x, y).parent = x + 1

\* the cumulative costs of the last row of a cost map, by column
LastRowCosts(emap) ==
    [i \in 0..(emap.width - 1) |-> CostCell(emap, i, emap.height - 1).energy]

\* the cumulative costs of the last column of a cost map, by row
LastColumnCosts(emap) ==
    [i \in 0..(emap.height - 1) |-> CostCell(emap, emap.width - 1, i).energy]

\* the cumulative costs of the cells the tracer of the call can start from:
\* the last row of the cost map of a vertical seam, the last column of that
\* of a horizontal seam (for AviShaTwo the last row of the cost map of the
\* Flipper)
LastCosts ==
    CASE op = "energy_to_vertical_seam" -> LastRowCosts(vertical_target(image))
      [] op = "energy_to_horizontal_seam" -> LastColumnCosts(horizontal_target(image))
      [] op = "find_vertical_seam" -> LastRowCosts(calculate_cost(image, num_cpus))
      [] op = "find_horizontal_seam" -> LastRowCosts(calculate_cost(Flipper(image), num_cpus))

\* the least cumulative cost is at `start`, and nowhere before it
FirstMinimum(costs, start) ==
    \A i \in DOMAIN costs :
        \/ costs[i] > costs[start]
        \/ costs[i] = costs[start] /\ i >= start

\* a cell as cheap as the one at `start` after it, and a dearer one before it
TiedAfterDearerBefore(costs, start) ==
    /\ \E i \in DOMAIN costs : i > start /\ costs[i] = costs[start]
    /\ \E i \in DOMAIN costs : i < start /\ costs[i] > costs[start]

\* where the tracer started: the last entry of the seam
SeamStart == ret.val[Len(ret.val)]

\* C13: a returned seam ends on (the tracer starts from) a cell of the last
\* row, or last column, whose cumulative cost is the least of that row or
\* column, and of the cells with the least cost on the one of lowest index.
C13_TracerStartsAtFirstMinimum ==
    SeamReturned => FirstMinimum(LastCosts, SeamStart)

\* a returned seam whose start is not at index 0, has a cell of the same
\* cost after it and a dearer cell before it
C13_Witness ==
    /\ SeamReturned
    /\ op = "find_horizontal_seam"
    /\ SeamStart > 0
    /\ TiedAfterDearerBefore(LastCosts, SeamStart)

\* the axis of the i-th carveonce call of a carve that alternates, width first
AlternatingAxis(i) == IF i % 2 = 1 THEN "Width" ELSE "Height"

\* C14: while both the width and the height exceed their targets (the first
\* loop of carve), the carved axes are width, height, width, height, ...:
\* the first is the width and no axis is carved twice in a row.
C14_BothPhaseAlternates ==
    pc \in {"both", "both_remove"} =>
        /\ \A i \in 1..Len(trail) : trail[i] = AlternatingAxis(i)
        /\ direction = AlternatingAxis(Len(trail) + (IF pc = "both" THEN 1 ELSE 0))

\* three seams carved in the first loop: width, height, width
C14_Witness ==
    /\ pc = "both"
    /\ trail = <<"Width", "Height", "Width">>
    /\ scratch.width = image.width - 2
    /\ scratch.height = image.height - 1

\* an image on which the claims allow no seam: a side of 0 or 1
Degenerate(img) == img.width <= 1 \/ img.height <= 1

\* carve is about to call carveonce: the condition of one of its loops holds
CarveStepNeeded ==
    \/ pc = "both" /\ width > newwidth /\ height > newheight
    \/ pc = "width" /\ width > newwidth
    \/ pc = "height" /\ height > newheight

\* C15: when carve needs a seam on a working image whose width or height is
\* 0 or 1, the step is not carried out and does not abort: carve returns a
\* failure result to its caller.
C15_DegenerateRejected ==
    [][(CarveStepNeeded /\ Degenerate(scratch)) =>
          (pc' = "returned" /\ ~ret'.panic /\ ~ret'.val.ok)]_vars

\* consecutive entries of a seam differ by at most 1
Connected(seam) ==
    \A i \in 1..(Len(seam) - 1) :
        seam[i + 1] - seam[i] <= 1 /\ seam[i] - seam[i + 1] <= 1

\* the sum of the grid values on the first n rows of a vertical seam
RECURSIVE VerticalSeamEnergy(_, _, _)
VerticalSeamEnergy(grid, seam, n) ==
    IF n = 0 THEN 0
    ELSE VerticalSeamEnergy(grid, seam, n - 1) + get_pixel(grid, seam[n], n - 1)

\* the sum of the grid values on the first n columns of a horizontal seam
RECURSIVE HorizontalSeamEnergy(_, _, _)
HorizontalSeamEnergy(grid, seam, n) ==
    IF n = 0 THEN 0
    ELSE HorizontalSeamEnergy(grid, seam, n - 1) + get_pixel(grid, n - 1, seam[n])

\* no connected vertical seam of the grid has less energy than `least`
NoCheaperVerticalSeam(grid, least) ==
    \A s \in VerticalSeams(grid) :
        Connected(s) => least <= VerticalSeamEnergy(grid, s, grid.height)

\* no connected horizontal seam of the grid has less energy than `least`
NoCheaperHorizontalSeam(grid, least) ==
    \A s \in HorizontalSeams(grid) :
        Connected(s) => least <= HorizontalSeamEnergy(grid, s, grid.width)

\* C16: the seam energy_to_vertical_seam returns has the least total energy
\* of all connected vertical seams of the grid (one column per row,
\* consecutive columns at most 1 apart), and the seam
\* energy_to_horizontal_seam returns the least of all connected horizontal
\* seams.
C16_BaseSeamIsCheapest ==
    /\ (op = "energy_to_vertical_seam" /\ ~ret.panic) =>
          NoCheaperVerticalSeam(image, VerticalSeamEnergy(image, ret.val, image.height))
    /\ (op = "energy_to_horizontal_seam" /\ ~ret.panic) =>
          NoCheaperHorizontalSeam(image, HorizontalSeamEnergy(image, ret.val, image.width))

\* a returned vertical seam of no energy that bends both ways, on a grid
\* with a connected seam that has energy
C16_Witness ==
    /\ op = "energy_to_vertical_seam"
    /\ ~ret.panic
    /\ image.width = 3
    /\ image.height = 3
    /\ ret.val = <<0, 1, 0>>
    /\ VerticalSeamEnergy(image, ret.val, 3) = 0
    /\ VerticalSeamEnergy(image, <<0, 0, 0>>, 3) > 0

\* column x of an image, top to bottom
Column(img, x) == [k \in 1..img.height |-> get_pixel(img, x, k - 1)]

\* the columns x, x + 1, ... of an image, one after the other
RECURSIVE Columns(_, _)
Columns(img, x) == IF x >= img.width THEN <<>> ELSE Column(img, x) \o Columns(img, x + 1)

\* the transposed image: its rows are the columns of img
Transposed(img) == [width |-> img.height, height |-> img.width, data |-> Columns(img, 0)]

\* a call of find_vertical_seam on img
FindVerticalSeamOn(img) ==
    IF calculate_cost_panics(img, num_cpus, overflow_checks) THEN Panicked
    ELSE Returned(find_vertical_seam(img, num_cpus))

\* C17: the Flipper of an image has the dimensions (height, width) and, at
\* (x, y), the pixel of the image at (y, x); find_horizontal_seam comes to
\* what find_vertical_seam comes to on the transposed image.
C17_HorizontalIsVerticalOfTransposed ==
    op = "find_horizontal_seam" =>
        /\ Flipper(image).width = image.height
        /\ Flipper(image).height = image.width
        /\ \A x \in 0..(image.height - 1), y \in 0..(image.width - 1) :
              get_pixel(Flipper(image), x, y) = get_pixel(image, y, x)
        /\ ret = FindVerticalSeamOn(Transposed(image))

\* the horizontal seam of the 5 by 4 image of the tests, which is not its
\* own transpose
C17_Witness ==
    /\ op = "find_horizontal_seam"
    /\ image = Fixture
    /\ ret = Returned(<<3, 3, 3, 3, 2>>)
    /\ Transposed(image) # image

\* CU(x, y) of the comment above cost_candidate_pixel: the distance between
\* the left and the right neighbour of (x, y) in row y, a neighbour outside
\* the image being (x, y) itself
ClaimedCostUp(img, x, y) ==
    SquaredDifference(Clamped(img, x - 1, y, x, y), Clamped(img, x + 1, y, x, y))

\* M(c, y - 1) plus CU, CL or CR of that comment, for the predecessor c
ClaimedTotal(emap, img, x, y, c) ==
    CostCell(emap, c, y - 1).energy + ClaimedCostUp(img, x, y)
        + (IF c = x THEN 0
           ELSE SquaredDifference(get_pixel(img, x, y - 1), get_pixel(img, c, y)))

\* C18: in the cost map calculate_cost returns, the cost of a cell (x, y)
\* with y >= 1 is the cumulative cost of its parent plus a transition cost
\* which, from straight up, is the distance between the left and right
\* neighbours of (x, y) in row y (a missing neighbour being (x, y)), and from
\* up-left or up-right that distance plus distance((x, y-1), (x-1, y)) or
\* distance((x, y-1), (x+1, y)).
C18_UpCostIsOfRowY ==
    (op = "calculate_cost" /\ ~ret.panic) =>
        \A x \in 0..(image.width - 1), y \in 1..(image.height - 1) :
            CostCell(ret.val, x, y).energy =
               ClaimedTotal(ret.val, image, x, y, CostCell(ret.val, x, y).parent)

\* the workers whose range holds column x
WorkersOf(ranges, x) == {i \in 1..Len(ranges) : ranges[i][1] <= x /\ x < ranges[i][2]}

\* the ranges are ranges of a row of width w, each starts where the one
\* before it ends, and every column of the row is in exactly one of them
PartitionOfRow(ranges, w) ==
    /\ \A i \in 1..Len(ranges) :
          0 <= ranges[i][1] /\ ranges[i][1] <= ranges[i][2] /\ ranges[i][2] <= w
    /\ \A i \in 1..(Len(ranges) - 1) : ranges[i][2] = ranges[i + 1][1]
    /\ \A x \in 0..(w - 1) : Cardinality(WorkersOf(ranges, x)) = 1

\* C19: the column ranges [start, end) start_and_end gives the workers of
\* one row are contiguous and pairwise disjoint, have start <= end <= width,
\* and cover [0, width): every column of the row belongs to exactly one
\* worker.
C19_RangesPartitionRow ==
    op = "spawn" => PartitionOfRow(ret.val, image.width)

\* three workers on a row of five columns: the last one takes the remainder
C19_Witness ==
    /\ op = "spawn"
    /\ image.width = 5
    /\ num_cpus = 3
    /\ ret.val = << <<0, 2>>, <<2, 4>>, <<4, 5>> >>

\* C20: the workers spawned for one row are as many as num_cpus::get() or
\* as the row has columns, whichever is less, and none of them has an empty
\* column range.
C20_WorkersClampedToWidth ==
    op = "spawn" =>
        /\ Len(ret.val) = (IF num_cpus < image.width THEN num_cpus ELSE image.width)
        /\ \A i \in 1..Len(ret.val) : ret.val[i][1] < ret.val[i][2]

\* the workers of the row under way that have not been joined yet
Unjoined == {i \in 1..Len(builder.handles) : i > builder.joined}

\* every cell of row y of the map has been assigned
RowWritten(y) == \A x \in 0..(image.width - 1) : <<x, y>> \in builder.written

\* while the workers of row y are spawned, run and joined: what they have
\* read are cells of row y - 1, that row is written in full, and no cell of
\* row y or of a later row is written
RowsBarrier ==
    builder.pc \in {"spawn", "join"} =>
        /\ \A c \in builder.reads : c[2] = builder.y - 1 /\ c \in builder.written
        /\ RowWritten(builder.y - 1)
        /\ \A c \in builder.written : c[2] < builder.y

\* a step that assigns cells of the map, or that starts the next row, is
\* taken with every worker of the row finished and joined
RowsWriteAfterJoin ==
    (builder.pc # "start"
        /\ (builder'.written # builder.written \/ builder'.emap # builder.emap
              \/ builder'.y # builder.y))
    => /\ builder.joined = builder.thread_count
       /\ Unjoined = {}
       /\ \A i \in 1..Len(builder.handles) : builder.handles[i].state = "finished"

\* C21: in the forward-energy builder, under every interleaving of the
\* workers of a row, the workers of row y read cost cells of row y - 1 only,
\* which is written in full before any of them starts; row y is written into
\* the grid only after all workers of row y have been joined, and row y + 1
\* is not started before that.
C21_RowsAreBarriers == [](RowsBarrier) /\ [][RowsWriteAfterJoin]_vars

\* the third row under way, the second worker finished with a cell pushed
\* while the first one is still running
C21_Witness ==
    /\ builder.pc \in {"spawn", "join"}
    /\ builder.y = 2
    /\ Len(builder.handles) >= 2
    /\ builder.handles[1].state = "running"
    /\ builder.handles[2].state = "finished"
    /\ Len(builder.handles[2].segment) >= 1
    /\ builder.reads # {}

\* row y of a grid assigned in place, cell after cell from column x on, each
\* cell from the grid as it stands
RECURSIVE SequentialRow(_, _, _, _)
SequentialRow(img, grid, x, y) ==
    IF x >= img.width THEN grid
    ELSE SequentialRow(img,
                       [grid EXCEPT !.data[get_index(grid, x, y)] =
                                        cost_candidate_pixel(img, grid, x, y)],
                       x + 1, y)

\* the rows from y on, one after the other
RECURSIVE SequentialRows(_, _, _)
SequentialRows(img, grid, y) ==
    IF y >= img.height THEN grid
    ELSE SequentialRows(img, SequentialRow(img, grid, 0, y), y + 1)

\* the cost grid of an image by one thread going left to right, row by row
SequentialGrid(img) == SequentialRows(img, first_rows(img), 1)

\* C22: for a given image the cost grid calculate_cost ends with is the same
\* for every number of workers and every scheduling of them, and it is the
\* grid obtained by evaluating cost_candidate_pixel left to right, row by
\* row, on one thread; whether the call panics depends on the image and the
\* build only.
C22_GridIsSequential ==
    builder.pc \in {"returned", "panicked"} =>
        ret = IF calculate_cost_panics(image, 1, overflow_checks) THEN Panicked
              ELSE Returned(SequentialGrid(image))

\* a grid of two computed rows that three workers have built, its cells not
\* all alike
C22_Witness ==
    /\ builder.pc = "returned"
    /\ num_cpus = 3
    /\ image.width = 2
    /\ image.height = 3
    /\ ret.val = SequentialGrid(image)
    /\ \E k \in DOMAIN ret.val.data : ret.val.data[k].energy # 0
    /\ \E k \in DOMAIN ret.val.data : ret.val.data[k].parent # 0

\* how many of the first n carveonce calls of the carve went along axis d
Carved(d, n) == Cardinality({i \in 1..n : trail[i] = d})

\* how many carveonce calls have returned: the last one entered has not while
\* its seam is to be removed, nor when it panicked
Completed ==
    IF pc \in {"both_remove", "width_remove", "height_remove", "panicked"}
    THEN Len(trail) - 1
    ELSE Len(trail)

\* carve has passed its upscale check
CarveUnderWay ==
    pc # "start" /\ newwidth <= image.width /\ newheight <= image.height

\* C23: in every state of a carve the current width is at least the target
\* width and the current height at least the target height; every iteration
\* makes exactly one of the two smaller by exactly 1 and leaves the other as
\* it is; an axis that has reached its target is not carved again, so from
\* then on only the other axis is.
C23_CarveShrinksOneAxis ==
    CarveUnderWay =>
        /\ width >= newwidth /\ height >= newheight
        /\ scratch.width >= newwidth /\ scratch.height >= newheight
        /\ scratch.width = image.width - Carved("Width", Completed)
        /\ scratch.height = image.height - Carved("Height", Completed)
        /\ Len(scratch.data) = scratch.width * scratch.height
        /\ pc \in {"both", "width", "height", "returned"} =>
              width = scratch.width /\ height = scratch.height
        /\ \A i \in 1..Len(trail) :
              /\ trail[i] = "Width" => image.width - Carved("Width", i - 1) > newwidth
              /\ trail[i] = "Height" => image.height - Carved("Height", i - 1) > newheight

\* a 2x3 image carved to 1x1: the width reaches its target at once, the two
\* other iterations carve the height
C23_Witness ==
    /\ pc = "returned"
    /\ image.width = 2 /\ image.height = 3
    /\ trail = <<"Width", "Height", "Height">>
    /\ scratch.width = 1 /\ scratch.height = 1

\* C24: for every image of W by H and targets 1 <= w <= W, 1 <= h <= H,
\* carve ends, and it ends by returning after exactly (W - w) + (H - h)
\* iterations, each of them complete: none is skipped, none is left
\* unfinished.
C24_CarveEndsAfterEveryStep ==
    (CarveEnded /\ 1 <= newwidth /\ newwidth <= image.width
                /\ 1 <= newheight /\ newheight <= image.height) =>
        /\ pc = "returned"
        /\ Len(trail) = (image.width - newwidth) + (image.height - newheight)
        /\ Completed = Len(trail)

\* what C24 says of the builds in which u32 overflow wraps
C24_WhereOverflowWraps == ~overflow_checks => C24_CarveEndsAfterEveryStep

\* the predecessors of index i among 0..n-1, the one of the same index first
UpFirst(i, n) ==
    <<i>> \o (IF i > 0 THEN <<i - 1>> ELSE <<>>) \o (IF i < n - 1 THEN <<i + 1>> ELSE <<>>)

\* the predecessors of index i among 0..n-1, by rising index
LowestFirst(i, n) ==
    (IF i > 0 THEN <<i - 1>> ELSE <<>>) \o <<i>> \o (IF i < n - 1 THEN <<i + 1>> ELSE <<>>)

\* the first entry of `order` whose cost no entry undercuts
FirstCheapest(order, cost) ==
    order[CHOOSE k \in 1..Len(order) :
             /\ \A j \in 1..Len(order) : cost[order[k]] <= cost[order[j]]
             /\ \A j \in 1..(k - 1) : cost[order[j]] > cost[order[k]]]

\* every parent of the target map of energy_to_vertical_seam is the first of
\* the cheapest predecessors, with the same index first or by rising index
VerticalTies(target, upfirst) ==
    \A y \in 1..(target.height - 1), x \in 0..(target.width - 1) :
        target.data[get_index(target, x, y)].parent =
            FirstCheapest(IF upfirst THEN UpFirst(x, target.width)
                          ELSE LowestFirst(x, target.width),
                          [i \in 0..(target.width - 1) |->
                              target.data[get_index(target, i, y - 1)].energy])

\* the same of the target map of energy_to_horizontal_seam
HorizontalTies(target, upfirst) ==
    \A x \in 1..(target.width - 1), y \in 0..(target.height - 1) :
        target.data[get_index(target, x, y)].parent =
            FirstCheapest(IF upfirst THEN UpFirst(y, target.height)
                          ELSE LowestFirst(y, target.height),
                          [j \in 0..(target.height - 1) |->
                              target.data[get_index(target, x - 1, j)].energy])

\* C25: in the base-energy dynamic program, when several of the up to three
\* predecessors of a cell have the least cumulative cost, the parent stored
\* is the first of them in the order up (same index), up-left (index - 1),
\* up-right (index + 1).
C25_TieUpFirst ==
    /\ (op = "energy_to_vertical_seam" /\ ~ret.panic) =>
          VerticalTies(vertical_target(image), TRUE)
    /\ (op = "energy_to_horizontal_seam" /\ ~ret.panic) =>
          HorizontalTies(horizontal_target(image), TRUE)

\* C25 as the code has it: the parent stored is the first of the cheapest
\* predecessors in the order index - 1 (up-left), same index (up),
\* index + 1 (up-right), that is the one of the lowest index.
C25_TieLowestIndexFirst ==
    /\ (op = "energy_to_vertical_seam" /\ ~ret.panic) =>
          VerticalTies(vertical_target(image), FALSE)
    /\ (op = "energy_to_horizontal_seam" /\ ~ret.panic) =>
          HorizontalTies(horizontal_target(image), FALSE)

\* the cells up-left and up of (1, 1) are tied: the seam returned ends in
\* column 1 and comes from column 0
C25_Witness ==
    /\ op = "energy_to_vertical_seam"
    /\ ~ret.panic
    /\ image = [width |-> 2, height |-> 2, data |-> <<0, 0, 2, 0>>]
    /\ ret.val = <<0, 1>>

\* C26: for every pair of luma values a and b, a < b included,
\* energy_of_pair_luma returns (a - b)^2, a u32 that is not negative, and
\* neither does its u32 subtraction underflow nor its product pass the range
\* of u32.
C26_PairIsSquaredDifference ==
    op = "energy_of_pair_luma" =>
        /\ ~energy_of_pair_luma_overflows(pixels[1], pixels[2])
        /\ ~ret.panic
        /\ ret.val = SquaredDifference(pixels[1], pixels[2])
        /\ ret.val >= 0

\* what is left of C26: the value is (a - b)^2 where the overflow wraps, and
\* nothing overflows when a >= b
C26_WhereNothingPanics ==
    op = "energy_of_pair_luma" =>
        /\ ~ret.panic => ret.val = SquaredDifference(pixels[1], pixels[2])
        /\ ret.panic <=> (overflow_checks /\ pixels[1] < pixels[2])
        /\ energy_of_pair_luma_overflows(pixels[1], pixels[2]) <=> pixels[1] < pixels[2]

====
